---- MODULE Spec2Model ----
(***************************************************************************)
(* Transit delay predictor (src/model.py, class TransitDelayPredictor).    *)
(*                                                                         *)
(* The predictor objects are the state: model_type, model (the estimator), *)
(* feature_names and is_trained of each object, the artifacts written by   *)
(* save(), the position of a train() call that is in progress, and the     *)
(* outcome of the call that returned last.                                 *)
(*                                                                         *)
(* Conventions.  Row positions are 1-based here (pandas iloc is 0-based).  *)
(* A DataFrame is [columns, rows]: an ordered list of column names and a   *)
(* sequence of rows, each row a function from column name to value.  The   *)
(* scikit-learn estimators are modelled by what the code relies on: fit()  *)
(* discards the previous fit and is a deterministic function of the        *)
(* hyper-parameters and of (X, y) (random_state = 42); predict() reads the *)
(* feature matrix by column POSITION after checking the column names       *)
(* against those seen by fit.  Delays are whole minutes.                   *)
(*                                                                         *)
(* Feature engine (src/feature_engineering.py, class TransitFeatureEngine).*)
(* Its state is the engine object (lag_hours), the caller's event table,   *)
(* the order in which the sort of the build leaves rows of equal key, and  *)
(* the outcome of the engine call that returned last.  An event table is   *)
(* held by column, [columns, index_type, index, data]: data[c][i] is the   *)
(* value of column c on row i, index[i] the label of row i in the pandas   *)
(* index of the given type.  Standard deviations are kept as variances.    *)
(* Timestamps are whole                                                    *)
(* minutes since Monday 2024-01-01 00:00; real numbers are exact fractions *)
(* num/den in lowest terms, and NaN is the fraction 0/0.                   *)
(***************************************************************************)
EXTENDS Integers, Sequences, FiniteSets, TLC

VARIABLES model_type, model, feature_names, is_trained, files, pc, cv_log, last,
          engine, events, sort_ties, fe_last

vars == <<model_type, model, feature_names, is_trained, files, pc, cv_log, last,
          engine, events, sort_ties, fe_last>>

\* the variables of the predictor objects and of the feature engine
predictor_vars == <<model_type, model, feature_names, is_trained, files, pc, cv_log, last>>
fe_vars == <<engine, events, sort_ties, fe_last>>

(***************************************************************************)
(* Bounds of the model and constants of the program                        *)
(***************************************************************************)
\* rows of the largest training table
MaxRows == 12
\* trees per ensemble (the program fits n_estimators = 100)
NumTrees == 2
\* TimeSeriesSplit(n_splits=5)
n_splits == 5
\* np.clip(predictions, -10, 60)
ClipLo == -10
ClipHi == 60

\* Python's None, where a string or an estimator is expected
None == "None"

Pids == {"m1", "m2"}
Paths == {"model.pkl"}

\* model types the constructor builds an estimator for
SupportedTypes == {"random_forest", "gradient_boosting"}
\* model types the constructor's docstring lists
DocumentedTypes == {"random_forest", "gradient_boosting", "xgboost"}
\* model-type tags callers pass
RequestedTypes == DocumentedTypes \cup {"linear"}

(***************************************************************************)
(* Tables                                                                  *)
(***************************************************************************)
Range(s) == {s[i] : i \in 1..Len(s)}

Min(a, b) == IF a <= b THEN a ELSE b

Max(a, b) == IF a >= b THEN a ELSE b

Abs(a) == IF a >= 0 THEN a ELSE -a

RECURSIVE SumSeq(_)
SumSeq(s) == IF s = <<>> THEN 0 ELSE s[1] + SumSeq(Tail(s))

ColNum(c) == CASE c = "hour" -> 1 [] c = "day_of_week" -> 2 [] c = "is_peak_hour" -> 3

\* the value of column c in row i of the synthetic table with the given seed
Cell(c, i, seed) == (ColNum(c) * (i + seed) + (i \div 3)) % 3

DataFrame(cols, n, seed) ==
    [columns |-> cols,
     rows    |-> [i \in 1..n |-> [c \in Range(cols) |-> Cell(c, i, seed)]]]

\* target delays; multiples of NumTrees so that an ensemble mean is a whole minute
YPool == <<-25, -5, 100, 30, -30, -20, 5>>

Series(n, seed) == [i \in 1..n |-> NumTrees * YPool[((i + seed) % Len(YPool)) + 1]]

\* len(X)
NRows(X) == Len(X.rows)

\* X.iloc[idx], idx an ascending sequence of row positions
ILoc(X, idx) == [columns |-> X.columns, rows |-> [k \in 1..Len(idx) |-> X.rows[idx[k]]]]

\* y.iloc[idx]
SeriesILoc(y, idx) == [k \in 1..Len(idx) |-> y[idx[k]]]

\* X[names]: the columns of X selected and ordered as names
SelectColumns(X, names) ==
    [columns |-> names,
     rows    |-> [i \in 1..NRows(X) |-> [c \in Range(names) |-> X.rows[i][c]]]]

\* the values of X as a positional matrix (what an estimator computes on)
Matrix(X) == [i \in 1..NRows(X) |-> [j \in 1..Len(X.columns) |-> X.rows[i][X.columns[j]]]]

HD == <<"hour", "day_of_week">>
DH == <<"day_of_week", "hour">>
DHP == <<"day_of_week", "hour", "is_peak_hour">>
HDP == <<"hour", "day_of_week", "is_peak_hour">>
PD == <<"is_peak_hour", "day_of_week">>

\* (X, y) pairs passed to train(): well-formed tables, a table with too few
\* rows for 5 folds, and tables whose y is longer or shorter than X
TrainInputs ==
    { [X |-> DataFrame(HD, MaxRows, 0),        y |-> Series(MaxRows, 0)],
      [X |-> DataFrame(DHP, n_splits + 1, 1),  y |-> Series(n_splits + 1, 3)],
      [X |-> DataFrame(HD, 3, 0),              y |-> Series(3, 0)],
      [X |-> DataFrame(HD, n_splits + 1, 1),   y |-> Series(n_splits + 2, 1)],
      [X |-> DataFrame(HD, n_splits + 1, 0),   y |-> Series(n_splits, 2)] }

\* tables passed to predict(): training order, permuted, with an extra
\* column, and lacking a column
PredictInputs ==
    { DataFrame(HD, 2, 0), DataFrame(DH, 2, 0), DataFrame(HDP, 3, 1),
      DataFrame(DHP, 1, 2), DataFrame(PD, 2, 1) }

(***************************************************************************)
(* Call outcomes                                                           *)
(***************************************************************************)
NoError == [type |-> "", msg |-> ""]

Ok(v) == [raised |-> NoError, value |-> v]

Raise(type, msg) == [raised |-> [type |-> type, msg |-> msg], value |-> <<>>]

IsOk(r) == r.raised = NoError

(***************************************************************************)
(* The estimator (RandomForestRegressor / GradientBoostingRegressor)       *)
(***************************************************************************)
\* an estimator as the constructor creates it: hyper-parameters only
Unfitted(kind) ==
    [kind |-> kind, fitted |-> FALSE, feature_names_in_ |-> <<>>,
     X_fit |-> <<>>, y_fit |-> <<>>]

\* estimator.fit(X, y) with len(X) = len(y): the previous fit is discarded
Fit(est, X, y) ==
    [kind |-> est.kind, fitted |-> TRUE, feature_names_in_ |-> X.columns,
     X_fit |-> Matrix(X), y_fit |-> y]

\* the column position tree t splits on
SplitPos(est, t) ==
    ((t - 1 + (IF est.kind = "gradient_boosting" THEN 1 ELSE 0))
        % Len(est.feature_names_in_)) + 1

\* tree t of the fitted ensemble on one positional row v: the target of the
\* first training row, in the tree's own sample order, that agrees with v on
\* the tree's split column (the first row of that order when none agrees)
TreePredict(est, t, v) ==
    LET n       == Len(est.X_fit)
        f       == SplitPos(est, t)
        start   == ((t - 1) % n) + 1
        rank(i) == (i - start + n) % n
        cand    == {i \in 1..n : est.X_fit[i][f] = v[f]}
        pick    == IF cand = {} THEN start
                   ELSE CHOOSE i \in cand : \A j \in cand : rank(i) <= rank(j)
    IN  est.y_fit[pick]

\* the ensemble's prediction for one positional row: the mean over its trees
EnsemblePredictRow(est, v) ==
    SumSeq([t \in 1..NumTrees |-> TreePredict(est, t, v)]) \div NumTrees

\* estimator.predict(X) for a DataFrame X: the column names must be those
\* seen by fit, in the same order; the values are then read by position
EstimatorPredict(est, X) ==
    IF ~est.fitted
    THEN Raise("NotFittedError", "This estimator is not fitted yet")
    ELSE IF X.columns # est.feature_names_in_
    THEN Raise("ValueError", "The feature names should match those that were passed during fit")
    ELSE Ok([i \in 1..NRows(X) |-> EnsemblePredictRow(est, Matrix(X)[i])])

\* tree.predict(X) of one member tree: fitted on a bare array, so it reads X
\* by position and checks only the number of columns
MemberPredict(est, t, X) ==
    IF Len(X.columns) # Len(est.feature_names_in_)
    THEN Raise("ValueError", "X has a different number of features than the tree was fitted with")
    ELSE Ok([i \in 1..NRows(X) |-> TreePredict(est, t, Matrix(X)[i])])

\* estimator.feature_importances_: one score per column position
FeatureImportances(est) ==
    [j \in 1..Len(est.feature_names_in_) |->
        Cardinality({t \in 1..NumTrees : SplitPos(est, t) = j})
          * Cardinality({est.X_fit[i][j] : i \in 1..Len(est.X_fit)})]

(***************************************************************************)
(* TimeSeriesSplit(n_splits=5).split(X)                                    *)
(***************************************************************************)
\* the ascending sequence of positions a..b (empty when b < a)
Span(a, b) == [k \in 1..(b - a + 1) |-> a + k - 1]

\* split() raises when there are fewer samples than n_splits + 1
SplitRaises(n_samples) == n_splits + 1 > n_samples

test_size(n_samples) == n_samples \div (n_splits + 1)

\* rows before the validation slice of fold k, k in 1..n_splits
TestStart(n_samples, k) == n_samples - (n_splits - k + 1) * test_size(n_samples)

\* the folds of an unordered KFold: every row outside the validation slice
\* is a training row
FoldKFold(n_samples, k) ==
    [train_idx |-> Span(1, TestStart(n_samples, k))
                     \o Span(TestStart(n_samples, k) + test_size(n_samples) + 1, n_samples),
     val_idx   |-> Span(TestStart(n_samples, k) + 1,
                        TestStart(n_samples, k) + test_size(n_samples))]

\* (train_idx, val_idx) of fold k
Fold(n_samples, k) ==
    [train_idx |-> Span(1, TestStart(n_samples, k)),
     val_idx   |-> Span(TestStart(n_samples, k) + 1,
                        TestStart(n_samples, k) + test_size(n_samples))]

(***************************************************************************)
(* TransitDelayPredictor                                                   *)
(***************************************************************************)
\* self.model = None
NoneModel == Unfitted(None)

\* __init__ without its else branch: any tag is kept, self.model stays None
InitEstimatorNoElse(mt) ==
    IF mt = "random_forest" THEN Ok(Unfitted("random_forest"))
    ELSE IF mt = "gradient_boosting" THEN Ok(Unfitted("gradient_boosting"))
    ELSE Ok(NoneModel)

\* __init__ leaving self.model = None for the supported types
InitEstimatorLazy(mt) ==
    IF mt \in SupportedTypes THEN Ok(NoneModel)
    ELSE Raise("ValueError", "Unknown model type")

\* the estimator __init__ builds for a model type, or its ValueError
InitEstimator(mt) ==
    IF mt = "random_forest" THEN Ok(Unfitted("random_forest"))
    ELSE IF mt = "gradient_boosting" THEN Ok(Unfitted("gradient_boosting"))
    ELSE Raise("ValueError", "Unknown model type")

\* the fields of predictor p
Self(p) ==
    [model_type |-> model_type[p], model |-> model[p],
     feature_names |-> feature_names[p], is_trained |-> is_trained[p]]

\* a clip that bounds the predictions from below only
ClipLowOnly(v) == Max(v, ClipLo)

\* np.clip(v, -10, 60)
Clip(v) == Min(Max(v, ClipLo), ClipHi)

\* an alignment that fills a column X lacks with zeros (a reindex with a
\* fill value) instead of raising
AlignColumnsFill(self, X) ==
    IF X.columns # self.feature_names
    THEN Ok([columns |-> self.feature_names,
             rows |-> [i \in 1..NRows(X) |->
                         [c \in Range(self.feature_names) |->
                             IF c \in Range(X.columns) THEN X.rows[i][c] ELSE 0]]])
    ELSE Ok(X)

\* lines 126-128: X as given when its columns are the stored list, else
\* X[self.feature_names], a KeyError when a stored name is not a column of X
AlignColumns(self, X) ==
    IF X.columns # self.feature_names
    THEN IF Range(self.feature_names) \subseteq Range(X.columns)
         THEN Ok(SelectColumns(X, self.feature_names))
         ELSE Raise("KeyError", "not in index")
    ELSE Ok(X)

\* predict(X)
predict(self, X) ==
    IF ~self.is_trained
    THEN Raise("ValueError", "Model must be trained before making predictions")
    ELSE LET aligned == AlignColumns(self, X)
         IN  IF ~IsOk(aligned) THEN aligned
             ELSE LET raw == EstimatorPredict(self.model, aligned.value)
                  IN  IF ~IsOk(raw) THEN raw
                      ELSE Ok([i \in 1..Len(raw.value) |-> Clip(raw.value[i])])

\* np.std over the member predictions of one row, as the variance num/den
StdOf(vals) ==
    [num |-> SumSeq([t \in 1..Len(vals) |->
                        (Len(vals) * vals[t] - SumSeq(vals)) * (Len(vals) * vals[t] - SumSeq(vals))]),
     den |-> Len(vals) * Len(vals) * Len(vals)]

\* the members the loop `for tree in self.model.estimators_` iterates over
\* have a predict method only for a random forest: a gradient boosting
\* model's estimators_ is a two-dimensional array, whose items are arrays
MembersArePredictors(est) == est.kind = "random_forest"

\* hasattr(self.model, 'estimators_'): the attribute exists once fitted
HasEstimators(est) == est.fitted

\* np.full_like(predictions, 2.0): a standard deviation of 2.0 for every
\* row, as the variance num/den
DefaultUncertainty(predictions) ==
    [i \in 1..Len(predictions) |-> [num |-> 4, den |-> 1]]

\* predict_with_confidence(X): (predictions, std_devs)
predict_with_confidence(self, X) ==
    LET predictions == predict(self, X)
    IN  IF ~IsOk(predictions) THEN predictions
        ELSE IF ~HasEstimators(self.model)
        THEN Ok([predictions |-> predictions.value,
                 std_devs |-> DefaultUncertainty(predictions.value)])
        ELSE IF ~MembersArePredictors(self.model)
        THEN Raise("AttributeError", "'numpy.ndarray' object has no attribute 'predict'")
        ELSE LET first == MemberPredict(self.model, 1, X)
             IN  IF ~IsOk(first) THEN first
                 ELSE Ok([predictions |-> predictions.value,
                          std_devs |-> [i \in 1..NRows(X) |->
                              StdOf([t \in 1..NumTrees |->
                                        MemberPredict(self.model, t, X).value[i]])]])

\* whether ord lists the positions 1..Len(imp) by non-increasing importance
SortsDescending(ord, imp) ==
    /\ Len(ord) = Len(imp)
    /\ Range(ord) = 1..Len(imp)
    /\ \A a, b \in 1..Len(ord) : a < b => imp[ord[a]] >= imp[ord[b]]

\* hasattr(self.model, 'feature_importances_'): the attribute exists once
\* fitted
HasFeatureImportances(est) == est.fitted

\* get_feature_importance(), rows taken in the order ord
get_feature_importance(self, ord) ==
    IF ~self.is_trained
    THEN Raise("ValueError", "Model must be trained first")
    ELSE IF ~HasFeatureImportances(self.model)
    THEN Ok(<<>>)
    ELSE IF Len(self.feature_names) # Len(FeatureImportances(self.model))
    THEN Raise("ValueError", "All arrays must be of the same length")
    ELSE Ok([k \in 1..Len(ord) |->
                [feature |-> self.feature_names[ord[k]],
                 importance |-> FeatureImportances(self.model)[ord[k]]]])

\* the dictionary save() dumps
ModelData(self) ==
    [model |-> self.model, model_type |-> self.model_type,
     feature_names |-> self.feature_names, is_trained |-> self.is_trained]

\* save() without its untrained guard
save_unguarded(self) == Ok(ModelData(self))

\* save(path): the artifact written, or the ValueError of the untrained guard
save(self) ==
    IF ~self.is_trained
    THEN Raise("ValueError", "Cannot save untrained model")
    ELSE Ok(ModelData(self))

\* no file at a path
NoFile == [model |-> NoneModel, model_type |-> None, feature_names |-> <<>>, is_trained |-> FALSE]

\* a load() that keeps the estimator its constructor call built
load_fresh_estimator(model_data) ==
    LET built == InitEstimator(model_data.model_type)
    IN  IF ~IsOk(built) THEN built
        ELSE Ok([model_type |-> model_data.model_type,
                 model |-> built.value,
                 feature_names |-> model_data.feature_names,
                 is_trained |-> model_data.is_trained])

\* load(path): the predictor built from the artifact model_data
load(model_data) ==
    LET built == InitEstimator(model_data.model_type)
    IN  IF ~IsOk(built) THEN built
        ELSE Ok([model_type |-> model_data.model_type,
                 model |-> model_data.model,
                 feature_names |-> model_data.feature_names,
                 is_trained |-> model_data.is_trained])

(***************************************************************************)
(* train(X, y): the steps of one call                                      *)
(***************************************************************************)
\* a mean error that lets errors of opposite sign cancel
mean_absolute_error_signed(y_true, y_pred) ==
    [num |-> SumSeq([i \in 1..Len(y_true) |-> y_true[i] - y_pred[i]]),
     den |-> Len(y_true)]

\* mean_absolute_error(y_true, y_pred) as the fraction num/den
mean_absolute_error(y_true, y_pred) ==
    [num |-> SumSeq([i \in 1..Len(y_true) |-> Abs(y_true[i] - y_pred[i])]),
     den |-> Len(y_true)]

\* mean_squared_error(y_true, y_pred) as the fraction num/den
mean_squared_error(y_true, y_pred) ==
    [num |-> SumSeq([i \in 1..Len(y_true) |->
                        (y_true[i] - y_pred[i]) * (y_true[i] - y_pred[i])]),
     den |-> Len(y_true)]

\* r2_score(y_true, y_pred) = 1 - num/den: residual and total sums of
\* squares, both scaled by len(y)^2
r2_score(y_true, y_pred) ==
    [num |-> Len(y_true) * Len(y_true) * mean_squared_error(y_true, y_pred).num,
     den |-> SumSeq([i \in 1..Len(y_true) |->
                        (Len(y_true) * y_true[i] - SumSeq(y_true))
                          * (Len(y_true) * y_true[i] - SumSeq(y_true))])]

\* np.mean(cv_scores): the folds have equal validation sizes
MeanOfScores(cv_scores) ==
    [num |-> SumSeq([k \in 1..Len(cv_scores) |-> cv_scores[k].num]),
     den |-> Len(cv_scores) * cv_scores[1].den]

\* np.std(cv_scores), as the variance num/den
StdOfScores(cv_scores) ==
    [num |-> StdOf([k \in 1..Len(cv_scores) |-> cv_scores[k].num]).num,
     den |-> StdOf([k \in 1..Len(cv_scores) |-> cv_scores[k].num]).den
               * cv_scores[1].den * cv_scores[1].den]

\* lines 97-106: the metrics record, from the final model's predictions on X
Metrics(est, X, y, cv_scores) ==
    LET y_pred == EstimatorPredict(est, X).value
    IN  [mae         |-> mean_absolute_error(y, y_pred),
         rmse        |-> mean_squared_error(y, y_pred),
         r2          |-> r2_score(y, y_pred),
         cv_mae_mean |-> MeanOfScores(cv_scores),
         cv_mae_std  |-> StdOfScores(cv_scores)]

\* line 74: the feature-name contract train() stores
StoredFeatureNames(X) == X.columns

\* line 86: the estimator after the fit of one cross-validation fold
FoldFit(est, X, y, fold) == Fit(est, ILoc(X, fold.train_idx), SeriesILoc(y, fold.train_idx))

\* a train() without the final fit: the estimator of the last fold is kept
FinalFitSkipped(est, X, y) == est

\* line 94: the estimator after the final fit
FinalFit(est, X, y) == Fit(est, X, y)

\* y.iloc[idx] raises IndexError when a position lies beyond the series
OutOfBounds(y, idx) == \E k \in 1..Len(idx) : idx[k] > Len(y)

EmptyFrame == [columns |-> <<>>, rows |-> <<>>]

Idle == [stage |-> "idle", pid |-> "", X |-> EmptyFrame, y |-> <<>>, fold |-> 0]

NoCall ==
    [op |-> "", pid |-> "", arg |-> "", X |-> EmptyFrame, y |-> <<>>,
     raised |-> NoError, value |-> <<>>]

\* the record of a call that returned or raised
Returned(op, p, arg, X, y, result) ==
    [op |-> op, pid |-> p, arg |-> arg, X |-> X, y |-> y,
     raised |-> result.raised, value |-> result.value]

Exists(p) == model_type[p] # None

\* no engine object yet, no event table, no engine call yet
NoEngine == [constructed |-> FALSE, lag_hours |-> <<>>]
NoEvents == [columns |-> <<>>, index_type |-> "RangeIndex", index |-> <<>>, data |-> <<>>]
NoEngineCall ==
    [op |-> "", df |-> NoEvents, include_weather |-> FALSE, include_events |-> FALSE,
     raised |-> NoError, value |-> NoEvents]

Init ==
    /\ model_type = [p \in Pids |-> None]
    /\ model = [p \in Pids |-> NoneModel]
    /\ feature_names = [p \in Pids |-> <<>>]
    /\ is_trained = [p \in Pids |-> FALSE]
    /\ files = [f \in Paths |-> NoFile]
    /\ pc = Idle
    /\ cv_log = <<>>
    /\ last = NoCall
    /\ engine = NoEngine
    /\ events = NoEvents
    /\ sort_ties = "kept"
    /\ fe_last = NoEngineCall

\* TransitDelayPredictor(model_type=mt), the new object being p
Construct(p, mt) ==
    /\ UNCHANGED fe_vars
    /\ pc.stage = "idle"
    /\ ~Exists(p)
    /\ LET built == InitEstimator(mt)
       IN  /\ last' = Returned("__init__", p, mt, EmptyFrame, <<>>,
                               [built EXCEPT !.value = <<>>])
           /\ IF IsOk(built)
              THEN /\ model_type' = [model_type EXCEPT ![p] = mt]
                   /\ model' = [model EXCEPT ![p] = built.value]
              ELSE UNCHANGED <<model_type, model>>
    /\ UNCHANGED <<feature_names, is_trained, files, pc, cv_log>>

\* train(X, y) up to the first fold: lines 71-82.  Calls are synchronous:
\* the caller holds no earlier result while a call is in progress, and
\* cv_log holds the folds of the call in progress only
TrainBegin(p, X, y) ==
    /\ UNCHANGED fe_vars
    /\ pc.stage = "idle"
    /\ Exists(p)
    /\ feature_names' = [feature_names EXCEPT ![p] = StoredFeatureNames(X)]
    /\ cv_log' = <<>>
    /\ IF SplitRaises(NRows(X))
       THEN /\ last' = Returned("train", p, "", X, y,
                          Raise("ValueError", "Cannot have number of folds greater than the number of samples"))
            /\ pc' = Idle
       ELSE /\ pc' = [stage |-> "cv", pid |-> p, X |-> X, y |-> y, fold |-> 1]
            /\ last' = NoCall
    /\ UNCHANGED <<model_type, model, is_trained, files>>

\* one iteration of the cross-validation loop: lines 82-89
TrainFold ==
    /\ UNCHANGED fe_vars
    /\ pc.stage = "cv"
    /\ LET p    == pc.pid
           fold == Fold(NRows(pc.X), pc.fold)
       IN  IF OutOfBounds(pc.y, fold.train_idx) \/ OutOfBounds(pc.y, fold.val_idx)
           THEN /\ last' = Returned("train", p, "", pc.X, pc.y,
                              Raise("IndexError", "positional indexers are out-of-bounds"))
                /\ pc' = Idle
                /\ cv_log' = <<>>
                /\ UNCHANGED model
           ELSE LET fitted == FoldFit(model[p], pc.X, pc.y, fold)
                    y_pred == EstimatorPredict(fitted, ILoc(pc.X, fold.val_idx)).value
                    mae    == mean_absolute_error(SeriesILoc(pc.y, fold.val_idx), y_pred)
                IN  /\ model' = [model EXCEPT ![p] = fitted]
                    /\ cv_log' = Append(cv_log, [train_idx |-> fold.train_idx,
                                                 val_idx |-> fold.val_idx, mae |-> mae])
                    /\ pc' = IF pc.fold = n_splits
                             THEN [pc EXCEPT !.stage = "final"]
                             ELSE [pc EXCEPT !.fold = pc.fold + 1]
                    /\ UNCHANGED last
    /\ UNCHANGED <<model_type, feature_names, is_trained, files>>

\* the final fit, the metrics and the return: lines 91-110
TrainFinal ==
    /\ UNCHANGED fe_vars
    /\ pc.stage = "final"
    /\ LET p == pc.pid
       IN  IF NRows(pc.X) # Len(pc.y)
           THEN /\ last' = Returned("train", p, "", pc.X, pc.y,
                              Raise("ValueError", "Found input variables with inconsistent numbers of samples"))
                /\ UNCHANGED <<model, is_trained>>
           ELSE LET fitted == FinalFit(model[p], pc.X, pc.y)
                IN  /\ model' = [model EXCEPT ![p] = fitted]
                    /\ is_trained' = [is_trained EXCEPT ![p] = TRUE]
                    /\ last' = Returned("train", p, "", pc.X, pc.y,
                                  Ok(Metrics(fitted, pc.X, pc.y,
                                             [k \in 1..Len(cv_log) |-> cv_log[k].mae])))
    /\ pc' = Idle
    /\ cv_log' = <<>>
    /\ UNCHANGED <<model_type, feature_names, files>>

\* the predictor after a call that also takes the columns of X for its
\* feature names
AfterReadAdopting(self, X) == [self EXCEPT !.feature_names = X.columns]

\* the predictor after predict(X), predict_with_confidence(X) or
\* get_feature_importance(): none of them assigns an attribute of self, and
\* the estimator's predict and feature_importances_ assign none of its own
AfterRead(self, X) == self

\* p.predict(X)
Predict(p, X) ==
    /\ UNCHANGED fe_vars
    /\ pc.stage = "idle"
    /\ Exists(p)
    /\ last' = Returned("predict", p, "", X, <<>>, predict(Self(p), X))
    /\ LET after == AfterRead(Self(p), X)
       IN  /\ model_type' = [model_type EXCEPT ![p] = after.model_type]
           /\ model' = [model EXCEPT ![p] = after.model]
           /\ feature_names' = [feature_names EXCEPT ![p] = after.feature_names]
           /\ is_trained' = [is_trained EXCEPT ![p] = after.is_trained]
    /\ UNCHANGED <<files, pc, cv_log>>

\* p.predict_with_confidence(X)
PredictWithConfidence(p, X) ==
    /\ UNCHANGED fe_vars
    /\ pc.stage = "idle"
    /\ Exists(p)
    /\ last' = Returned("predict_with_confidence", p, "", X, <<>>,
                        predict_with_confidence(Self(p), X))
    /\ LET after == AfterRead(Self(p), X)
       IN  /\ model_type' = [model_type EXCEPT ![p] = after.model_type]
           /\ model' = [model EXCEPT ![p] = after.model]
           /\ feature_names' = [feature_names EXCEPT ![p] = after.feature_names]
           /\ is_trained' = [is_trained EXCEPT ![p] = after.is_trained]
    /\ UNCHANGED <<files, pc, cv_log>>

\* p.get_feature_importance(); rows of equal importance come in either order
GetFeatureImportance(p) ==
    /\ UNCHANGED fe_vars
    /\ pc.stage = "idle"
    /\ Exists(p)
    /\ \E ord \in UNION {[1..k -> 1..k] : k \in 0..3} :
          /\ \/ ~is_trained[p] /\ ord = <<>>
             \/ /\ is_trained[p]
                /\ SortsDescending(ord, FeatureImportances(model[p]))
          /\ last' = Returned("get_feature_importance", p, "", EmptyFrame, <<>>,
                              get_feature_importance(Self(p), ord))
    /\ LET after == AfterRead(Self(p), EmptyFrame)
       IN  /\ model_type' = [model_type EXCEPT ![p] = after.model_type]
           /\ model' = [model EXCEPT ![p] = after.model]
           /\ feature_names' = [feature_names EXCEPT ![p] = after.feature_names]
           /\ is_trained' = [is_trained EXCEPT ![p] = after.is_trained]
    /\ UNCHANGED <<files, pc, cv_log>>

\* p.save(path)
Save(p, path) ==
    /\ UNCHANGED fe_vars
    /\ pc.stage = "idle"
    /\ Exists(p)
    /\ LET written == save(Self(p))
       IN  /\ last' = Returned("save", p, path, EmptyFrame, <<>>,
                               [written EXCEPT !.value = <<>>])
           /\ files' = IF IsOk(written) THEN [files EXCEPT ![path] = written.value]
                       ELSE files
    /\ UNCHANGED <<model_type, model, feature_names, is_trained, pc, cv_log>>

\* TransitDelayPredictor.load(path), the returned object being p
Load(p, path) ==
    /\ UNCHANGED fe_vars
    /\ pc.stage = "idle"
    /\ ~Exists(p)
    /\ IF files[path] = NoFile
       THEN /\ last' = Returned("load", p, path, EmptyFrame, <<>>,
                          Raise("FileNotFoundError", "No such file or directory"))
            /\ UNCHANGED <<model_type, model, feature_names, is_trained>>
       ELSE LET loaded == load(files[path])
            IN  /\ last' = Returned("load", p, path, EmptyFrame, <<>>,
                                    [loaded EXCEPT !.value = <<>>])
                /\ model_type' = [model_type EXCEPT ![p] = loaded.value.model_type]
                /\ model' = [model EXCEPT ![p] = loaded.value.model]
                /\ feature_names' = [feature_names EXCEPT ![p] = loaded.value.feature_names]
                /\ is_trained' = [is_trained EXCEPT ![p] = loaded.value.is_trained]
    /\ UNCHANGED <<files, pc, cv_log>>

Next ==
    \/ \E p \in Pids, mt \in RequestedTypes : Construct(p, mt)
    \/ \E p \in Pids, d \in TrainInputs : TrainBegin(p, d.X, d.y)
    \/ TrainFold
    \/ TrainFinal
    \/ \E p \in Pids, X \in PredictInputs : Predict(p, X)
    \/ \E p \in Pids, X \in PredictInputs : PredictWithConfidence(p, X)
    \/ \E p \in Pids : GetFeatureImportance(p)
    \/ \E p \in Pids, path \in Paths : Save(p, path)
    \/ \E p \in Pids, path \in Paths : Load(p, path)

Spec == Init /\ [][Next]_vars

(***************************************************************************)
(* Feature engine: numbers (float64 values as exact fractions)             *)
(***************************************************************************)
RECURSIVE GCD(_, _)
GCD(a, b) == IF b = 0 THEN a ELSE GCD(b, a % b)

\* np.nan
NaN == [num |-> 0, den |-> 0]

IsNaN(x) == x.den = 0

\* the number n/d (d # 0) in lowest terms with a positive denominator
Frac(n, d) ==
    LET g == GCD(Abs(n), Abs(d))
    IN  IF d > 0 THEN [num |-> n \div g, den |-> d \div g]
                 ELSE [num |-> (0 - n) \div g, den |-> (0 - d) \div g]

FAdd(a, b) == Frac(a.num * b.den + b.num * a.den, a.den * b.den)

FSub(a, b) == Frac(a.num * b.den - b.num * a.den, a.den * b.den)

FMul(a, b) == Frac(a.num * b.num, a.den * b.den)

RECURSIVE FSum(_)
FSum(s) == IF s = <<>> THEN Frac(0, 1) ELSE FAdd(Head(s), FSum(Tail(s)))

\* .mean() of the numbers s: NaN when there is none
FMean(s) ==
    IF s = <<>> THEN NaN ELSE Frac(FSum(s).num, FSum(s).den * Len(s))

\* a standard deviation with ddof = 0 (variance): 0 for a single value
FStdPopulation(s) ==
    IF s = <<>> THEN NaN
    ELSE LET sq == FSum([i \in 1..Len(s) |->
                            FMul(FSub(s[i], FMean(s)), FSub(s[i], FMean(s)))])
         IN  Frac(sq.num, sq.den * Len(s))

\* .std() of the numbers s (ddof = 1), as the variance: NaN below two values
FStd(s) ==
    IF Len(s) < 2 THEN NaN
    ELSE LET sq == FSum([i \in 1..Len(s) |->
                            FMul(FSub(s[i], FMean(s)), FSub(s[i], FMean(s)))])
         IN  Frac(sq.num, sq.den * (Len(s) - 1))

(***************************************************************************)
(* Feature engine: event tables                                            *)
(***************************************************************************)
\* most events of one input table
MaxEvents == 3

\* the function f itself, held as the table of its values
Stored(f) == f @@ <<>>

\* the events input tables are made of: 08:00, 10:30 and 11:31 of route 14
\* on Monday, 09:00 of route 38 and of route 14, Saturday 17:00 of route 38.
\* expected_arrival - aimed_arrival differs from delay_seconds on every event
EventPool ==
    << [timestamp |-> 480,  route_id |-> "14", delay_seconds |-> 120,
        aimed_arrival |-> 480,  expected_arrival |-> 485,  stop_id |-> "s1"],
       [timestamp |-> 630,  route_id |-> "14", delay_seconds |-> 300,
        aimed_arrival |-> 630,  expected_arrival |-> 632,  stop_id |-> "s1"],
       [timestamp |-> 691,  route_id |-> "14", delay_seconds |-> -90,
        aimed_arrival |-> 691,  expected_arrival |-> 690,  stop_id |-> "s2"],
       [timestamp |-> 540,  route_id |-> "38", delay_seconds |-> 180,
        aimed_arrival |-> 540,  expected_arrival |-> 540,  stop_id |-> "s1"],
       [timestamp |-> 540,  route_id |-> "14", delay_seconds |-> 60,
        aimed_arrival |-> 540,  expected_arrival |-> 547,  stop_id |-> "s2"],
       [timestamp |-> 8220, route_id |-> "38", delay_seconds |-> 0,
        aimed_arrival |-> 8220, expected_arrival |-> 8223, stop_id |-> "s2"] >>

\* the shapes of the input tables.  With the default index: all three event
\* columns; no route_id; no timestamp; the aimed/expected pair as the delay
\* source; both delay sources; no delay source; none of the event columns.
\* Indexed by the time of each event: all three event columns; the
\* aimed/expected pair; no route_id
TableShapes ==
    { [columns |-> <<"timestamp", "route_id", "delay_seconds">>, index_type |-> "RangeIndex"],
      [columns |-> <<"timestamp", "delay_seconds">>, index_type |-> "RangeIndex"],
      [columns |-> <<"route_id", "delay_seconds">>, index_type |-> "RangeIndex"],
      [columns |-> <<"timestamp", "route_id", "aimed_arrival", "expected_arrival">>,
       index_type |-> "RangeIndex"],
      [columns |-> <<"timestamp", "route_id", "delay_seconds", "aimed_arrival",
                     "expected_arrival">>, index_type |-> "RangeIndex"],
      [columns |-> <<"timestamp", "route_id">>, index_type |-> "RangeIndex"],
      [columns |-> <<"stop_id">>, index_type |-> "RangeIndex"],
      [columns |-> <<"timestamp", "route_id", "delay_seconds">>, index_type |-> "DatetimeIndex"],
      [columns |-> <<"timestamp", "route_id", "aimed_arrival", "expected_arrival">>,
       index_type |-> "DatetimeIndex"],
      [columns |-> <<"timestamp", "delay_seconds">>, index_type |-> "DatetimeIndex"] }

\* the positions S of the pool as a sequence, ascending or descending
RECURSIVE InOrder(_, _)
InOrder(S, ascending) ==
    IF S = {} THEN <<>>
    ELSE LET m == CHOOSE x \in S : \A y \in S : x <= y
         IN  IF ascending THEN <<m>> \o InOrder(S \ {m}, ascending)
                          ELSE InOrder(S \ {m}, ascending) \o <<m>>

\* at most n events of the pool, in pool order or in the opposite order (the
\* pool is not in time order)
Arrangements(n) ==
    {InOrder(S, asc) :
        S \in {T \in SUBSET (1..Len(EventPool)) : Cardinality(T) <= n},
        asc \in BOOLEAN}

\* pd.DataFrame of the pool events a, with the columns cols.  index_type
\* "RangeIndex" is the default index 0..n-1; "DatetimeIndex" is the table
\* indexed by the time of each event
EventTable(a, cols, index_type) ==
    [columns    |-> cols,
     index_type |-> index_type,
     index      |-> [i \in 1..Len(a) |->
                        IF index_type = "RangeIndex" THEN i - 1
                        ELSE EventPool[a[i]].timestamp],
     data       |-> Stored([c \in Range(cols) |->
                        [i \in 1..Len(a) |-> EventPool[a[i]][c]]])]

EventTables ==
    {EventTable(a, shape.columns, shape.index_type) :
        a \in Arrangements(MaxEvents), shape \in TableShapes}

\* len(df)
Length(df) == Len(df.index)

HasColumn(df, c) == c \in Range(df.columns)

\* df[c] = ... for each c of names: a new column is appended, an existing
\* one replaced; col(c) holds the values of column c, one per row
AddColumns(df, names, col(_)) ==
    [df EXCEPT
        !.columns = df.columns \o SelectSeq(names, LAMBDA c : ~HasColumn(df, c)),
        !.data = [c \in Range(names) |-> Stored(col(c))] @@ df.data]

\* row i of df: its label and its value in every column
Row(df, i) == [label |-> df.index[i], cells |-> [c \in Range(df.columns) |-> df.data[c][i]]]

(***************************************************************************)
(* TransitFeatureEngine                                                    *)
(***************************************************************************)
\* the lag_hours lists engines are constructed with; the last is the default
LagConfigs == { <<>>, <<1>>, <<1, 3, 24, 168>> }

\* (include_weather, include_events) of the calls: the defaults, or both
\* placeholder groups asked for
OptionalGroups == { <<FALSE, FALSE>>, <<TRUE, TRUE>> }

\* the window sizes of the rolling statistics
RollingWindows == <<3, 6, 12>>

\* pd.to_datetime(df['timestamp']): the column already holds datetime values
to_datetime(df) == df

\* the position that comes k-th when the rows are ordered by keys; rows of
\* equal key keep their order ("kept") or come in the opposite order
SortOrder(keys, ties) ==
    LET n == Len(keys)
        Rank(i) == 1 + Cardinality({j \in 1..n :
                          \/ keys[j] < keys[i]
                          \/ /\ keys[j] = keys[i]
                             /\ IF ties = "kept" THEN j < i ELSE j > i})
    IN  [k \in 1..n |-> CHOOSE i \in 1..n : Rank(i) = k]

\* df.sort_values(by): kind defaults to 'quicksort', which leaves the order
\* of rows of equal key to the implementation; every row keeps its label
sort_values(df, by, ties) ==
    LET order == SortOrder(df.data[by], ties)
    IN  [df EXCEPT !.index = Stored([k \in 1..Len(order) |-> df.index[order[k]]]),
                   !.data  = Stored([c \in Range(df.columns) |->
                                Stored([k \in 1..Len(order) |-> df.data[c][order[k]]])])]

\* .astype(int) of a boolean
AsInt(b) == IF b THEN 1 ELSE 0

\* np.sin / np.cos of 2 * pi * num / den, kept symbolic
Cyclic(fn, value, period) == [fn |-> fn, turn |-> Frac(value, period)]

\* .dt.hour, .dt.dayofweek (Monday = 0), .dt.day and .dt.month of a time of
\* January 2024
Hour(t) == (t \div 60) % 24
DayOfWeek(t) == (t \div 1440) % 7
DayOfMonth(t) == (t \div 1440) + 1
Month(t) == 1

TemporalNames ==
    <<"hour", "day_of_week", "day_of_month", "month",
      "is_weekend", "is_morning_peak", "is_evening_peak", "is_peak_hour",
      "hour_sin", "hour_cos", "dow_sin", "dow_cos">>

\* temporal features whose peak ranges leave their last hour out
TemporalValueHalfOpen(name, t) ==
    CASE name = "hour"            -> Hour(t)
      [] name = "day_of_week"     -> DayOfWeek(t)
      [] name = "day_of_month"    -> DayOfMonth(t)
      [] name = "month"           -> Month(t)
      [] name = "is_weekend"      -> AsInt(DayOfWeek(t) \in {5, 6})
      [] name = "is_morning_peak" -> AsInt(Hour(t) >= 7 /\ Hour(t) < 9)
      [] name = "is_evening_peak" -> AsInt(Hour(t) >= 16 /\ Hour(t) < 18)
      [] name = "is_peak_hour"    -> AsInt(\/ Hour(t) >= 7 /\ Hour(t) < 9
                                           \/ Hour(t) >= 16 /\ Hour(t) < 18)
      [] name = "hour_sin"        -> Cyclic("sin", Hour(t), 24)
      [] name = "hour_cos"        -> Cyclic("cos", Hour(t), 24)
      [] name = "dow_sin"         -> Cyclic("sin", DayOfWeek(t), 7)
      [] name = "dow_cos"         -> Cyclic("cos", DayOfWeek(t), 7)

\* the temporal features of one row, from its timestamp t
TemporalValue(name, t) ==
    CASE name = "hour"            -> Hour(t)
      [] name = "day_of_week"     -> DayOfWeek(t)
      [] name = "day_of_month"    -> DayOfMonth(t)
      [] name = "month"           -> Month(t)
      [] name = "is_weekend"      -> AsInt(DayOfWeek(t) \in {5, 6})
      [] name = "is_morning_peak" -> AsInt(Hour(t) >= 7 /\ Hour(t) <= 9)
      [] name = "is_evening_peak" -> AsInt(Hour(t) >= 16 /\ Hour(t) <= 18)
      [] name = "is_peak_hour"    -> AsInt(\/ Hour(t) >= 7 /\ Hour(t) <= 9
                                           \/ Hour(t) >= 16 /\ Hour(t) <= 18)
      [] name = "hour_sin"        -> Cyclic("sin", Hour(t), 24)
      [] name = "hour_cos"        -> Cyclic("cos", Hour(t), 24)
      [] name = "dow_sin"         -> Cyclic("sin", DayOfWeek(t), 7)
      [] name = "dow_cos"         -> Cyclic("cos", DayOfWeek(t), 7)

\* _add_temporal_features(df)
add_temporal_features(df) ==
    IF ~HasColumn(df, "timestamp") THEN df
    ELSE AddColumns(df, TemporalNames,
            LAMBDA c : [i \in 1..Length(df) |-> TemporalValue(c, df.data["timestamp"][i])])

\* a derivation that prefers the arrival pair to the direct field
add_delay_features_pair_first(df) ==
    IF HasColumn(df, "aimed_arrival") /\ HasColumn(df, "expected_arrival")
    THEN AddColumns(df, <<"delay_minutes">>,
            LAMBDA c : [i \in 1..Length(df) |->
                Frac((df.data["expected_arrival"][i] - df.data["aimed_arrival"][i]) * 60, 60)])
    ELSE IF HasColumn(df, "delay_seconds")
    THEN AddColumns(df, <<"delay_minutes">>,
            LAMBDA c : [i \in 1..Length(df) |-> Frac(df.data["delay_seconds"][i], 60)])
    ELSE df

\* _add_delay_features(df): the direct field first, else the arrival pair
\* ((expected - aimed).total_seconds() / 60)
add_delay_features(df) ==
    IF HasColumn(df, "delay_seconds")
    THEN AddColumns(df, <<"delay_minutes">>,
            LAMBDA c : [i \in 1..Length(df) |-> Frac(df.data["delay_seconds"][i], 60)])
    ELSE IF HasColumn(df, "aimed_arrival") /\ HasColumn(df, "expected_arrival")
    THEN AddColumns(df, <<"delay_minutes">>,
            LAMBDA c : [i \in 1..Length(df) |->
                Frac((df.data["expected_arrival"][i] - df.data["aimed_arrival"][i]) * 60, 60)])
    ELSE df

LagName(hours) == "delay_lag_" \o ToString(hours) \o "h"
RollingMeanName(window) == "delay_rolling_mean_" \o ToString(window) \o "h"
RollingStdName(window) == "delay_rolling_std_" \o ToString(window) \o "h"

\* df.groupby('route_id')['delay_minutes'].shift(freq=f'{hours}H'), as the
\* column that `df[...] = ` stores.  Each group has its INDEX moved forward
\* by the offset (its values stay), which only a datetime index can do; the
\* groups are concatenated, and the assignment aligns the result with df on
\* the index labels alone, which needs the labels to be unique.  A row gets
\* the value whose moved label equals its own label, else NaN.  A table
\* without rows has no group to shift
GroupShift(df, hours) ==
    LET n == Length(df)
        Sources(i) == {j \in 1..n : df.index[j] + hours * 60 = df.index[i]}
    IN  IF n = 0 THEN Ok(<<>>)
        ELSE IF df.index_type # "DatetimeIndex"
        THEN Raise("NotImplementedError",
                   "This method is only implemented for DatetimeIndex, PeriodIndex and TimedeltaIndex")
        ELSE IF \E i, j \in 1..n : i # j /\ df.index[i] = df.index[j]
        THEN Raise("ValueError", "cannot reindex on an axis with duplicate labels")
        ELSE Ok([i \in 1..n |->
                    IF Sources(i) = {} THEN NaN
                    ELSE df.data["delay_minutes"][CHOOSE j \in Sources(i) : TRUE]])

\* the loop over self.lag_hours (lines 116-120): the first shift that
\* raises ends the call
AddLagColumns(df, lags) ==
    LET Failed == {k \in 1..Len(lags) : ~IsOk(GroupShift(df, lags[k]))}
    IN  IF Failed # {}
        THEN GroupShift(df, lags[CHOOSE k \in Failed : \A m \in Failed : k <= m])
        ELSE Ok(AddColumns(df, [k \in 1..Len(lags) |-> LagName(lags[k])],
                    LAMBDA c :
                        GroupShift(df, lags[CHOOSE k \in 1..Len(lags) :
                                                LagName(lags[k]) = c]).value))

\* the delay_minutes values x.rolling(window=window, min_periods=1) gives
\* the statistic of row i: those of the last `window` ROWS of the row's
\* route up to and including row i
RollingValues(df, i, window) ==
    LET group == SelectSeq([j \in 1..i |-> j],
                           LAMBDA j : df.data["route_id"][j] = df.data["route_id"][i])
        first == Max(1, Len(group) - window + 1)
    IN  [k \in 1..(Len(group) - first + 1) |->
            df.data["delay_minutes"][group[first + k - 1]]]

\* the loop over the windows (lines 123-129)
AddRollingColumns(df, windows) ==
    AddColumns(df,
        [k \in 1..(2 * Len(windows)) |->
            IF k % 2 = 1 THEN RollingMeanName(windows[(k + 1) \div 2])
                         ELSE RollingStdName(windows[k \div 2])],
        LAMBDA c :
            LET w == CHOOSE w \in Range(windows) :
                         c \in {RollingMeanName(w), RollingStdName(w)}
            IN  [i \in 1..Length(df) |->
                    IF c = RollingMeanName(w) THEN FMean(RollingValues(df, i, w))
                                              ELSE FStd(RollingValues(df, i, w))])

\* lag features that keep only the rows with a value in every lag column
add_lag_features_dropna(self, df) ==
    IF ~HasColumn(df, "delay_minutes") \/ ~HasColumn(df, "route_id") THEN Ok(df)
    ELSE LET lagged == AddLagColumns(df, self.lag_hours)
             full   == AddRollingColumns(lagged.value, RollingWindows)
             kept   == SelectSeq([i \in 1..Length(full) |-> i],
                          LAMBDA i : \A k \in 1..Len(self.lag_hours) :
                              ~IsNaN(full.data[LagName(self.lag_hours[k])][i]))
         IN  IF ~IsOk(lagged) THEN lagged
             ELSE Ok([full EXCEPT
                        !.index = [k \in 1..Len(kept) |-> full.index[kept[k]]],
                        !.data  = [c \in Range(full.columns) |->
                                     [k \in 1..Len(kept) |-> full.data[c][kept[k]]]]])

\* _add_lag_features(df)
add_lag_features(self, df) ==
    IF ~HasColumn(df, "delay_minutes") \/ ~HasColumn(df, "route_id") THEN Ok(df)
    ELSE LET lagged == AddLagColumns(df, self.lag_hours)
         IN  IF ~IsOk(lagged) THEN lagged
             ELSE Ok(AddRollingColumns(lagged.value, RollingWindows))

\* the delay_minutes values of all rows of the route of row i
RouteValues(df, i) ==
    LET group == SelectSeq([j \in 1..Length(df) |-> j],
                           LAMBDA j : df.data["route_id"][j] = df.data["route_id"][i])
    IN  [k \in 1..Len(group) |-> df.data["delay_minutes"][group[k]]]

\* route statistics over the rows of the route up to the row itself only
add_route_features_expanding(df) ==
    IF ~HasColumn(df, "route_id") THEN Ok(df)
    ELSE IF ~HasColumn(df, "delay_minutes")
    THEN Raise("KeyError", "Column not found: delay_minutes")
    ELSE Ok(AddColumns(df, <<"route_avg_delay", "route_delay_std">>,
                LAMBDA c : [i \in 1..Length(df) |->
                              IF c = "route_avg_delay"
                              THEN FMean(RollingValues(df, i, Length(df)))
                              ELSE FStd(RollingValues(df, i, Length(df)))]))

\* _add_route_features(df): only route_id is looked for before
\* df.groupby('route_id')['delay_minutes'] is taken
add_route_features(df) ==
    IF ~HasColumn(df, "route_id") THEN Ok(df)
    ELSE IF ~HasColumn(df, "delay_minutes")
    THEN Raise("KeyError", "Column not found: delay_minutes")
    ELSE Ok(AddColumns(df, <<"route_avg_delay", "route_delay_std">>,
                LAMBDA c : [i \in 1..Length(df) |->
                              IF c = "route_avg_delay"
                              THEN FMean(RouteValues(df, i))
                              ELSE FStd(RouteValues(df, i))]))

\* _add_weather_features(df): placeholder columns
add_weather_features(df) ==
    AddColumns(df, <<"temperature", "precipitation", "is_rainy">>,
               LAMBDA c : [i \in 1..Length(df) |-> IF c = "is_rainy" THEN 0 ELSE NaN])

\* _add_event_features(df): placeholder columns
add_event_features(df) ==
    AddColumns(df, <<"is_holiday", "nearby_event">>,
               LAMBDA c : [i \in 1..Length(df) |-> 0])

\* create_features(df, include_weather, include_events) in a build whose
\* sort treats rows of equal timestamp as `ties` says.  Every step works on
\* the copy made first
create_features(self, df, include_weather, include_events, ties) ==
    LET sorted   == IF HasColumn(df, "timestamp")
                    THEN sort_values(to_datetime(df), "timestamp", ties)
                    ELSE df
        temporal == add_temporal_features(sorted)
        delay    == add_delay_features(temporal)
        lagged   == add_lag_features(self, delay)
    IN  IF ~IsOk(lagged) THEN lagged
        ELSE LET routed == add_route_features(lagged.value)
             IN  IF ~IsOk(routed) THEN routed
                 ELSE LET weather == IF include_weather
                                     THEN add_weather_features(routed.value)
                                     ELSE routed.value
                      IN  Ok(IF include_events THEN add_event_features(weather)
                                               ELSE weather)

\* the caller's table after a call whose steps assign to the caller's table
\* itself: the columns are added to it until sort_values rebinds df
CallerTableInPlace(self, df, include_weather, include_events, ties) ==
    LET result == create_features(self, df, include_weather, include_events, ties)
    IN  IF HasColumn(df, "timestamp") THEN to_datetime(df)
        ELSE IF IsOk(result) THEN result.value
        ELSE add_delay_features(df)

\* the caller's table after create_features(df, ...): df = df.copy() (line
\* 45) rebinds the local name, every assignment of the call is to the copy
CallerTable(self, df, include_weather, include_events, ties) == df

\* a name list that leaves the configured lags out
get_feature_names_without_lags(self) ==
    TemporalNames
      \o <<RollingMeanName(3), RollingStdName(3), RollingMeanName(6),
           RollingStdName(6), RollingMeanName(12), RollingStdName(12)>>
      \o <<"route_avg_delay", "route_delay_std">>

\* get_feature_names()
get_feature_names(self) ==
    TemporalNames
      \o [k \in 1..Len(self.lag_hours) |-> LagName(self.lag_hours[k])]
      \o <<RollingMeanName(3), RollingStdName(3), RollingMeanName(6),
           RollingStdName(6), RollingMeanName(12), RollingStdName(12)>>
      \o <<"route_avg_delay", "route_delay_std">>

(***************************************************************************)
(* The feature engine as a state machine: one engine, one caller's table   *)
(***************************************************************************)
\* TransitFeatureEngine(lag_hours=lags)
ConstructEngine(lags) ==
    /\ ~engine.constructed
    /\ engine' = [constructed |-> TRUE, lag_hours |-> lags]
    /\ UNCHANGED <<events, sort_ties, fe_last>>
    /\ UNCHANGED predictor_vars

\* engine.create_features(events, include_weather, include_events)
CreateFeatures(include_weather, include_events) ==
    /\ engine.constructed
    /\ LET result == create_features(engine, events, include_weather,
                                     include_events, sort_ties)
       IN  fe_last' = [op |-> "create_features", df |-> events,
                       include_weather |-> include_weather,
                       include_events |-> include_events,
                       raised |-> result.raised,
                       value |-> IF IsOk(result) THEN result.value ELSE NoEvents]
    /\ events' = CallerTable(engine, events, include_weather, include_events,
                              sort_ties)
    /\ UNCHANGED <<engine, sort_ties>>
    /\ UNCHANGED predictor_vars

\* engine.get_feature_names()
GetFeatureNames ==
    /\ engine.constructed
    /\ fe_last' = [op |-> "get_feature_names", df |-> NoEvents,
                   include_weather |-> FALSE, include_events |-> FALSE,
                   raised |-> NoError, value |-> get_feature_names(engine)]
    /\ UNCHANGED <<engine, events, sort_ties>>
    /\ UNCHANGED predictor_vars

\* the caller holds any of the event tables; the build's sort keeps or
\* swaps rows of equal key
InitFE ==
    /\ model_type = [p \in Pids |-> None]
    /\ model = [p \in Pids |-> NoneModel]
    /\ feature_names = [p \in Pids |-> <<>>]
    /\ is_trained = [p \in Pids |-> FALSE]
    /\ files = [f \in Paths |-> NoFile]
    /\ pc = Idle
    /\ cv_log = <<>>
    /\ last = NoCall
    /\ engine = NoEngine
    /\ events \in EventTables
    /\ sort_ties \in {"kept", "swapped"}
    /\ fe_last = NoEngineCall

NextFE ==
    \/ \E lags \in LagConfigs : ConstructEngine(lags)
    \/ \E flags \in OptionalGroups : CreateFeatures(flags[1], flags[2])
    \/ GetFeatureNames

SpecFE == InitFE /\ [][NextFE]_vars

(***************************************************************************)
(* The errors of the specification, as the code raises them                *)
(***************************************************************************)
\* NotTrainedError: the ValueError of the `if not self.is_trained` guards
NotTrainedError ==
    { [type |-> "ValueError", msg |-> "Model must be trained before making predictions"],
      [type |-> "ValueError", msg |-> "Model must be trained first"],
      [type |-> "ValueError", msg |-> "Cannot save untrained model"] }

\* FeatureMismatchError: the KeyError of X[self.feature_names]
FeatureMismatchError == { [type |-> "KeyError", msg |-> "not in index"] }

\* UnknownModelTypeError: the ValueError of the constructor's else branch
UnknownModelTypeError == { [type |-> "ValueError", msg |-> "Unknown model type"] }

\* the calls guarded by is_trained
GuardedOps == {"predict", "predict_with_confidence", "get_feature_importance", "save"}

(***************************************************************************)
(* Properties                                                              *)
(***************************************************************************)
\* C1: a call of predict, predict_with_confidence, get_feature_importance
\* or save on a predictor that is not trained raises NotTrainedError and
\* leaves the predictor's estimator, feature_names and is_trained, and the
\* files, as they were.
UntrainedGuard ==
    [][\A p \in Pids :
          (/\ Exists(p)
           /\ ~is_trained[p]
           /\ last'.op \in GuardedOps
           /\ last'.pid = p)
          => /\ last'.raised \in NotTrainedError
             /\ last'.value = <<>>
             /\ model'[p] = model[p]
             /\ feature_names'[p] = feature_names[p]
             /\ is_trained'[p] = is_trained[p]
             /\ files' = files]_vars

\* a state where save was just refused on an untrained predictor whose
\* estimator a failed train() has already fitted on a fold
UntrainedGuardWitness ==
    /\ last.op = "save"
    /\ Exists(last.pid)
    /\ ~is_trained[last.pid]
    /\ model[last.pid].fitted
    /\ last.raised \in NotTrainedError

\* C2: a predictor is created with an estimator and is_trained = false;
\* is_trained becomes true only when train() returns normally or by load();
\* once true it stays true; a train() that returns normally on a trained
\* predictor has replaced feature_names by the columns of its X.
Lifecycle ==
    [][\A p \in Pids :
          /\ (~Exists(p) /\ Exists(p)' /\ last'.op = "__init__")
                => (model'[p] # NoneModel /\ ~model'[p].fitted /\ ~is_trained'[p])
          /\ (~is_trained[p] /\ is_trained'[p])
                => (last'.pid = p /\ last'.op \in {"train", "load"} /\ last'.raised = NoError)
          /\ is_trained[p] => is_trained'[p]
          /\ (is_trained[p] /\ last'.op = "train" /\ last'.pid = p /\ last'.raised = NoError)
                => feature_names'[p] = last'.X.columns]_vars

\* a second train() has returned normally on m1 and changed the feature
\* names m1 had when it saved itself
LifecycleWitness ==
    /\ last.op = "train"
    /\ last.pid = "m1"
    /\ last.raised = NoError
    /\ ~Exists("m2")
    /\ \E f \in Paths :
          /\ files[f].is_trained
          /\ files[f].feature_names # feature_names["m1"]

\* the raw output of p's estimator on the rows of X, columns as stored
RawPredictions(p, X) == EstimatorPredict(model[p], SelectColumns(X, feature_names[p])).value

\* C3: a predict(X) that returns, returns one value per row of X, each in
\* [-10, 60]: the raw estimator output when that lies in the range, -10 when
\* it is below and 60 when it is above.
Clamping ==
    (last.op = "predict" /\ last.raised = NoError)
    => /\ Len(last.value) = NRows(last.X)
       /\ \A i \in 1..Len(last.value) :
             LET raw == RawPredictions(last.pid, last.X)[i]
             IN  /\ -10 <= last.value[i] /\ last.value[i] <= 60
                 /\ raw < -10 => last.value[i] = -10
                 /\ raw > 60 => last.value[i] = 60
                 /\ (-10 <= raw /\ raw <= 60) => last.value[i] = raw

\* predict returned a value clamped from below and a value clamped from above
ClampingWitness ==
    /\ last.op = "predict"
    /\ last.raised = NoError
    /\ \E i \in 1..Len(last.value) : RawPredictions(last.pid, last.X)[i] < -10
    /\ \E i \in 1..Len(last.value) : RawPredictions(last.pid, last.X)[i] > 60

\* whether X has every column named in names
HasColumns(X, names) == Range(names) \subseteq Range(X.columns)

\* C4: on a trained predictor, predict(X) for an X that has every stored
\* feature name, in another order or among extra columns, does not fail and
\* returns what predict returns for the same rows in the stored column order.
ReorderNeverFails ==
    (/\ last.op = "predict"
     /\ is_trained[last.pid]
     /\ HasColumns(last.X, feature_names[last.pid])
     /\ last.X.columns # feature_names[last.pid])
    => /\ last.raised = NoError
       /\ last.value = predict(Self(last.pid), SelectColumns(last.X, feature_names[last.pid])).value

\* C5: on a trained predictor, predict(X) for an X lacking a stored feature
\* name raises FeatureMismatchError, returns no prediction and leaves the
\* estimator, feature_names and is_trained as they were.
MissingFeatureRejected ==
    [][\A p \in Pids :
          (/\ is_trained[p]
           /\ last'.op = "predict"
           /\ last'.pid = p
           /\ ~HasColumns(last'.X, feature_names[p]))
          => /\ last'.raised \in FeatureMismatchError
             /\ last'.value = <<>>
             /\ model'[p] = model[p]
             /\ feature_names'[p] = feature_names[p]
             /\ is_trained'[p] = is_trained[p]]_vars

\* predict was just refused on a trained predictor for a table lacking a
\* stored feature
MissingFeatureWitness ==
    /\ last.op = "predict"
    /\ is_trained[last.pid]
    /\ ~HasColumns(last.X, feature_names[last.pid])
    /\ last.raised \in FeatureMismatchError

\* C6: save(path) writes the predictor's estimator, model type, feature
\* names and trained flag and leaves the predictor as it was; load(path)
\* returns a predictor with exactly the written fields, trained, whose
\* predict agrees on every table with that of a predictor still in the
\* state that was saved.
RoundTrip ==
    [][/\ \A p \in Pids :
            (last'.op = "save" /\ last'.pid = p /\ last'.raised = NoError)
            => /\ files'[last'.arg].model = model[p]
               /\ files'[last'.arg].model_type = model_type[p]
               /\ files'[last'.arg].feature_names = feature_names[p]
               /\ files'[last'.arg].is_trained = TRUE
               /\ model'[p] = model[p]
               /\ model_type'[p] = model_type[p]
               /\ feature_names'[p] = feature_names[p]
               /\ is_trained'[p] = is_trained[p]
       /\ \A q \in Pids :
            (last'.op = "load" /\ last'.pid = q /\ last'.raised = NoError)
            => /\ files' = files
               /\ model'[q] = files[last'.arg].model
               /\ model_type'[q] = files[last'.arg].model_type
               /\ feature_names'[q] = files[last'.arg].feature_names
               /\ is_trained'[q] = TRUE
               /\ \A m \in Pids \ {q}, X \in PredictInputs :
                     (/\ Exists(m)
                      /\ model[m] = files[last'.arg].model
                      /\ feature_names[m] = files[last'.arg].feature_names
                      /\ is_trained[m])
                     => predict([model_type |-> model_type'[q], model |-> model'[q],
                                 feature_names |-> feature_names'[q],
                                 is_trained |-> is_trained'[q]], X)
                          = predict(Self(m), X)]_vars

\* m2 was just loaded from the file m1 saved, and m1 still predicts
RoundTripWitness ==
    /\ last.op = "load"
    /\ last.pid = "m2"
    /\ last.raised = NoError
    /\ is_trained["m1"]
    /\ model["m2"] = model["m1"]
    /\ \E X \in PredictInputs : IsOk(predict(Self("m1"), X))

\* C7: a constructor call with a model type outside the supported set raises
\* UnknownModelTypeError and returns no object, and every predictor that
\* exists has a supported model type.
UnknownTypeRejected ==
    /\ \A p \in Pids : Exists(p) => model_type[p] \in SupportedTypes
    /\ (last.op = "__init__" /\ last.arg \notin SupportedTypes)
          => (last.raised \in UnknownModelTypeError /\ ~Exists(last.pid))

\* the constructor just refused the tag "linear"
UnknownTypeWitness ==
    /\ last.op = "__init__"
    /\ last.arg = "linear"
    /\ last.raised \in UnknownModelTypeError
    /\ ~Exists(last.pid)

\* C8: the constructor accepts each model type its docstring lists and
\* returns an untrained predictor with an estimator.
DocumentedTypesAccepted ==
    (last.op = "__init__" /\ last.arg \in DocumentedTypes)
    => /\ last.raised = NoError
       /\ Exists(last.pid)
       /\ model[last.pid] # NoneModel
       /\ ~is_trained[last.pid]

\* whether the positions of idx ascend
Ascending(idx) == \A i, j \in 1..Len(idx) : i < j => idx[i] < idx[j]

\* C9: train() runs exactly 5 folds over the rows in their given order; in
\* each fold every validation position is greater than every training
\* position, the training rows of a fold are those of the fold before plus
\* its validation rows, and the fold's fit uses its training rows only.
ExpandingWindow ==
    /\ Len(cv_log) <= 5
    /\ pc.stage = "cv" => Len(cv_log) = pc.fold - 1
    /\ pc.stage = "final" => Len(cv_log) = 5
    /\ \A k \in 1..Len(cv_log) :
          /\ cv_log[k].train_idx # <<>>
          /\ cv_log[k].val_idx # <<>>
          /\ Range(cv_log[k].train_idx) \cup Range(cv_log[k].val_idx) \subseteq 1..NRows(pc.X)
          /\ Ascending(cv_log[k].train_idx)
          /\ Ascending(cv_log[k].val_idx)
          /\ \A a \in Range(cv_log[k].train_idx), b \in Range(cv_log[k].val_idx) : a < b
          /\ k > 1 => Range(cv_log[k].train_idx)
                        = Range(cv_log[k - 1].train_idx) \cup Range(cv_log[k - 1].val_idx)
    /\ Len(cv_log) > 0
          => /\ model[pc.pid].X_fit = Matrix(ILoc(pc.X, cv_log[Len(cv_log)].train_idx))
             /\ model[pc.pid].y_fit = SeriesILoc(pc.y, cv_log[Len(cv_log)].train_idx)

\* the five folds of a train() on the largest table are done
ExpandingWindowWitness ==
    /\ pc.stage = "final"
    /\ NRows(pc.X) = MaxRows
    /\ Len(cv_log) = 5
    /\ Len(cv_log[1].train_idx) > 1

\* C10: when train(X, y) has returned, the estimator is the fit on all rows
\* of X and y, feature_names is the column list of X and is_trained holds;
\* that fit comes after all 5 fold fits, which leave the estimator fitted on
\* a fold only.
FinalRefit ==
    /\ (last.op = "train" /\ last.raised = NoError)
          => /\ model[last.pid].fitted
             /\ model[last.pid].kind = model_type[last.pid]
             /\ model[last.pid].feature_names_in_ = last.X.columns
             /\ model[last.pid].X_fit = Matrix(last.X)
             /\ model[last.pid].y_fit = last.y
             /\ feature_names[last.pid] = last.X.columns
             /\ is_trained[last.pid]
    /\ pc.stage = "final"
          => /\ Len(cv_log) = n_splits
             /\ Len(model[pc.pid].X_fit) < NRows(pc.X)

\* train() has just returned normally
FinalRefitWitness ==
    /\ last.op = "train"
    /\ last.raised = NoError
    /\ is_trained[last.pid]
    /\ Len(model[last.pid].y_fit) = MaxRows

\* the validation score of fold k of a train(X, y) on an estimator of the
\* given kind: mean absolute error over the rows of the validation slice
FoldScore(kind, X, y, k) ==
    LET fold == Fold(NRows(X), k)
        est  == Fit(Unfitted(kind), ILoc(X, fold.train_idx), SeriesILoc(y, fold.train_idx))
        pred == EstimatorPredict(est, ILoc(X, fold.val_idx)).value
    IN  [num |-> SumSeq([j \in 1..Len(fold.val_idx) |->
                            Abs(y[fold.val_idx[j]] - pred[j])]),
         den |-> Len(fold.val_idx)]

\* C11: a train(X, y) that returns gives a record with exactly the keys mae,
\* rmse, r2, cv_mae_mean and cv_mae_std; mae, rmse and r2 are computed in
\* sample, from the predictions of the final full-data estimator on X
\* against y; cv_mae_mean and cv_mae_std are the mean and the standard
\* deviation of the 5 per-fold validation MAE values; mae is not negative.
MetricsRecord ==
    (last.op = "train" /\ last.raised = NoError)
       => LET m      == last.value
              n      == Len(last.y)
              pred   == EstimatorPredict(model[last.pid], last.X).value
              err    == [i \in 1..n |-> last.y[i] - pred[i]]
              scores == [k \in 1..n_splits |->
                            FoldScore(model_type[last.pid], last.X, last.y, k)]
              total  == SumSeq([k \in 1..n_splits |-> scores[k].num])
          IN  /\ DOMAIN m = {"mae", "rmse", "r2", "cv_mae_mean", "cv_mae_std"}
              /\ m.mae = [num |-> SumSeq([i \in 1..n |-> Abs(err[i])]), den |-> n]
              /\ m.mae.num >= 0
              /\ m.rmse = [num |-> SumSeq([i \in 1..n |-> err[i] * err[i]]), den |-> n]
              /\ m.r2.num = n * n * m.rmse.num
              /\ m.r2.den = SumSeq([i \in 1..n |->
                                (n * last.y[i] - SumSeq(last.y))
                                  * (n * last.y[i] - SumSeq(last.y))])
              /\ m.cv_mae_mean = [num |-> total, den |-> n_splits * scores[1].den]
              /\ m.cv_mae_std.num =
                    SumSeq([k \in 1..n_splits |->
                               (n_splits * scores[k].num - total)
                                 * (n_splits * scores[k].num - total)])
              /\ m.cv_mae_std.den =
                    n_splits * n_splits * n_splits * scores[1].den * scores[1].den

\* a train() returned metrics with a positive in-sample error whose signed
\* errors cancel in part, and with fold scores that differ
MetricsRecordWitness ==
    /\ last.op = "train"
    /\ last.raised = NoError
    /\ last.value.mae.num > 0
    /\ last.value.cv_mae_std.num > 0
    /\ \E i, j \in 1..Len(last.y) :
          /\ last.y[i] > EstimatorPredict(model[last.pid], last.X).value[i]
          /\ last.y[j] < EstimatorPredict(model[last.pid], last.X).value[j]

\* C12: predict_with_confidence(X) on a trained predictor, for an X that
\* predict accepts, returns the predictions of predict(X) and, for each
\* row, the standard deviation of the member trees' predictions for that
\* row, which is not negative.
ConfidenceFromMembers ==
    (/\ last.op = "predict_with_confidence"
     /\ IsOk(predict(Self(last.pid), last.X)))
       => /\ last.raised = NoError
          /\ last.value.predictions = predict(Self(last.pid), last.X).value
          /\ \A i \in 1..NRows(last.X) :
                /\ last.value.std_devs[i] =
                      StdOf([t \in 1..NumTrees |->
                               TreePredict(model[last.pid], t,
                                   Matrix(SelectColumns(last.X, feature_names[last.pid]))[i])])
                /\ last.value.std_devs[i].num >= 0

\* C13: get_feature_importance() on a trained predictor returns one row per
\* feature of the contract, each feature name exactly once, ordered by
\* descending importance, every importance non-negative.
ImportanceRanking ==
    (last.op = "get_feature_importance" /\ is_trained[last.pid])
       => /\ last.raised = NoError
          /\ Len(last.value) = Len(feature_names[last.pid])
          /\ \A j \in 1..Len(feature_names[last.pid]) :
                Cardinality({k \in 1..Len(last.value) :
                    last.value[k].feature = feature_names[last.pid][j]}) = 1
          /\ \A a, b \in 1..Len(last.value) :
                a < b => last.value[a].importance >= last.value[b].importance
          /\ \A k \in 1..Len(last.value) : last.value[k].importance >= 0

(***************************************************************************)
(* Feature engine: properties                                              *)
(***************************************************************************)
\* the last engine call was create_features and it returned a table
FeaturesReturned == fe_last.op = "create_features" /\ fe_last.raised = NoError

\* the table has a column delay_minutes can be derived from
HasDelaySource(df) ==
    \/ HasColumn(df, "delay_seconds")
    \/ HasColumn(df, "aimed_arrival") /\ HasColumn(df, "expected_arrival")

\* the delay_minutes of the latest row of the route of row i whose time is
\* at or before the time of row i minus `hours` hours, NaN without such a row
LatestAtOrBefore(df, i, hours) ==
    LET ts    == df.data["timestamp"]
        cands == {j \in 1..Length(df) :
                     /\ df.data["route_id"][j] = df.data["route_id"][i]
                     /\ ts[j] <= ts[i] - 60 * hours}
    IN  IF cands = {} THEN NaN
        ELSE df.data["delay_minutes"][CHOOSE j \in cands : \A m \in cands : ts[m] <= ts[j]]

\* C14: for an input with timestamp, route_id and a delay source,
\* create_features returns a table in which, for every configured lag H and
\* every row, delay_lag_{H}h is the delay_minutes of the most recent sample
\* of the same route at or before the row's time minus H hours, and NaN
\* when the route has no such sample.
LagCorrectness ==
    (/\ fe_last.op = "create_features"
     /\ HasColumn(fe_last.df, "timestamp")
     /\ HasColumn(fe_last.df, "route_id")
     /\ HasDelaySource(fe_last.df))
       => /\ fe_last.raised = NoError
          /\ \A k \in 1..Len(engine.lag_hours) :
                /\ HasColumn(fe_last.value, LagName(engine.lag_hours[k]))
                /\ \A i \in 1..Length(fe_last.value) :
                      fe_last.value.data[LagName(engine.lag_hours[k])][i]
                        = LatestAtOrBefore(fe_last.value, i, engine.lag_hours[k])

\* row j of df is an earlier observation than row i: by time, or by position
\* in a table without timestamps
EarlierRow(df, j, i) ==
    IF HasColumn(df, "timestamp")
    THEN df.data["timestamp"][j] < df.data["timestamp"][i]
    ELSE j < i

\* row i is the earliest observation of its route in df
EarliestOfRoute(df, i) ==
    ~\E j \in 1..Length(df) :
        /\ df.data["route_id"][j] = df.data["route_id"][i]
        /\ EarlierRow(df, j, i)

\* C15: in a table create_features returns for an input with route_id and a
\* delay source, for every window W in {3, 6, 12} the earliest observation
\* of each route has delay_rolling_mean_{W}h equal to its own delay_minutes
\* and delay_rolling_std_{W}h NaN, and every later observation of the route
\* has a std that is a number.
RollingMinPeriods ==
    (/\ FeaturesReturned
     /\ HasColumn(fe_last.df, "route_id")
     /\ HasDelaySource(fe_last.df))
       => \A w \in {3, 6, 12} :
             /\ HasColumn(fe_last.value, RollingMeanName(w))
             /\ HasColumn(fe_last.value, RollingStdName(w))
             /\ \A i \in 1..Length(fe_last.value) :
                   IF EarliestOfRoute(fe_last.value, i)
                   THEN /\ fe_last.value.data[RollingMeanName(w)][i]
                             = fe_last.value.data["delay_minutes"][i]
                        /\ IsNaN(fe_last.value.data[RollingStdName(w)][i])
                   ELSE ~IsNaN(fe_last.value.data[RollingStdName(w)][i])

\* a returned table, given out of time order, with a first observation of a
\* route whose delay is not zero and a later observation of the same route
RollingMinPeriodsWitness ==
    /\ FeaturesReturned
    /\ HasColumn(fe_last.value, "delay_rolling_std_3h")
    /\ HasColumn(fe_last.df, "timestamp")
    /\ \E a, b \in 1..Length(fe_last.df) :
          a < b /\ fe_last.df.data["timestamp"][a] > fe_last.df.data["timestamp"][b]
    /\ \E i, j \in 1..Length(fe_last.value) :
          /\ EarliestOfRoute(fe_last.value, i)
          /\ fe_last.value.data["delay_minutes"][i].num # 0
          /\ fe_last.value.data["route_id"][j] = fe_last.value.data["route_id"][i]
          /\ ~EarliestOfRoute(fe_last.value, j)
          /\ fe_last.value.data["delay_rolling_std_3h"][j].num > 0

\* the delay_minutes of the rows of the route of row i whose time lies in
\* the `hours`-hour window ending at the time of row i, in table order
TimeWindowValues(df, i, hours) ==
    LET ts     == df.data["timestamp"]
        inside == SelectSeq([j \in 1..Length(df) |-> j],
                      LAMBDA j : /\ df.data["route_id"][j] = df.data["route_id"][i]
                                 /\ ts[j] <= ts[i]
                                 /\ ts[j] > ts[i] - 60 * hours)
    IN  [k \in 1..Len(inside) |-> df.data["delay_minutes"][inside[k]]]

\* C16: in a table create_features returns for an input with timestamp,
\* route_id and a delay source, for every window W in {3, 6, 12} and every
\* row, delay_rolling_mean_{W}h and delay_rolling_std_{W}h are the mean and
\* the standard deviation of delay_minutes over the samples of the same
\* route whose time lies in the W hours ending at the row's time.
RollingTimeWindow ==
    (/\ FeaturesReturned
     /\ HasColumn(fe_last.df, "timestamp")
     /\ HasColumn(fe_last.df, "route_id")
     /\ HasDelaySource(fe_last.df))
       => \A w \in {3, 6, 12} : \A i \in 1..Length(fe_last.value) :
             /\ fe_last.value.data[RollingMeanName(w)][i]
                  = FMean(TimeWindowValues(fe_last.value, i, w))
             /\ fe_last.value.data[RollingStdName(w)][i]
                  = FStd(TimeWindowValues(fe_last.value, i, w))

\* the rows of df whose route_id is r, labels kept
RowsOfRoute(df, r) ==
    LET keep == SelectSeq([j \in 1..Length(df) |-> j],
                          LAMBDA j : df.data["route_id"][j] = r)
    IN  [df EXCEPT !.index = [k \in 1..Len(keep) |-> df.index[keep[k]]],
                   !.data  = [c \in Range(df.columns) |->
                                 [k \in 1..Len(keep) |-> df.data[c][keep[k]]]]]

\* the columns of df that are lag, rolling or route-aggregate features
HistoryColumns(df) ==
    {c \in Range(df.columns) :
        \/ c \in {"route_avg_delay", "route_delay_std"}
        \/ \E h \in Range(engine.lag_hours) : c = LagName(h)
        \/ \E w \in {3, 6, 12} : c \in {RollingMeanName(w), RollingStdName(w)}}

OutputPosition(a) ==
    CHOOSE k \in 1..Length(fe_last.value) : fe_last.value.index[k] = a - 1

IsQuotient(x, n, d) == x.den > 0 /\ x.num * d = n * x.den

RouteGroupNames ==
    {LagName(h) : h \in Range(engine.lag_hours)}
      \cup {RollingMeanName(w) : w \in {3, 6, 12}}
      \cup {RollingStdName(w) : w \in {3, 6, 12}}
      \cup {"route_avg_delay", "route_delay_std"}

\* C20: for an input without route_id, create_features completes and the
\* output has no lag, rolling or route-aggregate column; for an input
\* without timestamp it completes and the output has no temporal column;
\* the groups whose columns are present are still produced (delay_minutes
\* from a delay source, the temporal columns from timestamp, the rolling
\* and route-aggregate columns from route_id and a delay source).
SkippedGroups ==
    fe_last.op = "create_features"
       => LET inp == fe_last.df
              out == fe_last.value
          IN  /\ ~HasColumn(inp, "route_id")
                    => /\ fe_last.raised = NoError
                       /\ Range(out.columns) \cap RouteGroupNames = {}
                       /\ HasColumn(inp, "timestamp")
                             => Range(TemporalNames) \subseteq Range(out.columns)
                       /\ HasDelaySource(inp) => HasColumn(out, "delay_minutes")
              /\ ~HasColumn(inp, "timestamp")
                    => /\ fe_last.raised = NoError
                       /\ Range(out.columns) \cap Range(TemporalNames) = {}
                       /\ HasDelaySource(inp) => HasColumn(out, "delay_minutes")
                       /\ (HasColumn(inp, "route_id") /\ HasDelaySource(inp))
                             => {"delay_rolling_mean_3h", "route_avg_delay"}
                                   \subseteq Range(out.columns)

\* C21: create_features on an input without rows, whatever its columns,
\* returns a table without rows and raises nothing.
EmptyInput ==
    (fe_last.op = "create_features" /\ Length(fe_last.df) = 0)
       => /\ fe_last.raised = NoError
          /\ Length(fe_last.value) = 0
          /\ \A c \in Range(fe_last.value.columns) : Len(fe_last.value.data[c]) = 0

\* the derived columns of a returned table: those the input did not have
DerivedColumns == Range(fe_last.value.columns) \ Range(fe_last.df.columns)

\* the columns of the two optional placeholder groups
OptionalColumns ==
    {"temperature", "precipitation", "is_rainy", "is_holiday", "nearby_event"}

\* the name list the configuration lag_hours stands for
NamesOf(lag_hours) ==
    <<"hour", "day_of_week", "day_of_month", "month", "is_weekend",
      "is_morning_peak", "is_evening_peak", "is_peak_hour",
      "hour_sin", "hour_cos", "dow_sin", "dow_cos">>
      \o [k \in 1..Len(lag_hours) |->
            "delay_lag_" \o ToString(lag_hours[k]) \o "h"]
      \o <<"delay_rolling_mean_3h", "delay_rolling_std_3h",
           "delay_rolling_mean_6h", "delay_rolling_std_6h",
           "delay_rolling_mean_12h", "delay_rolling_std_12h",
           "route_avg_delay", "route_delay_std">>

OriginalCells(df, i) ==
    [label |-> df.index[i],
     cells |-> [c \in Range(fe_last.df.columns) |-> df.data[c][i]]]

\* C23: a returned table has as many rows as the input, every column of the
\* input, and each input event exactly as often as the input has it, with
\* its original values in the input's columns: no row is dropped or
\* duplicated, rows without lag history included.
RowsPreserved ==
    FeaturesReturned
       => LET inp == fe_last.df
              out == fe_last.value
          IN  /\ Length(out) = Length(inp)
              /\ Range(inp.columns) \subseteq Range(out.columns)
              /\ \A c \in Range(out.columns) : Len(out.data[c]) = Length(inp)
              /\ \A i \in 1..Length(inp) :
                    Cardinality({j \in 1..Length(out) :
                                    OriginalCells(out, j) = OriginalCells(inp, i)})
                      = Cardinality({j \in 1..Length(inp) :
                                    OriginalCells(inp, j) = OriginalCells(inp, i)})

\* three events came back in another order than they were given, one with
\* a lag value and one without lag history
RowsPreservedWitness ==
    /\ FeaturesReturned
    /\ Length(fe_last.df) = 3
    /\ fe_last.value.index # fe_last.df.index
    /\ HasColumn(fe_last.value, "delay_lag_1h")
    /\ \E i, j \in 1..3 :
          /\ IsNaN(fe_last.value.data["delay_lag_1h"][i])
          /\ ~IsNaN(fe_last.value.data["delay_lag_1h"][j])

ReadOps == {"predict", "predict_with_confidence", "get_feature_importance"}

\* predictor p as the next state has it
SelfAfter(p) ==
    [model_type |-> model_type'[p], model |-> model'[p],
     feature_names |-> feature_names'[p], is_trained |-> is_trained'[p]]

SameRoute(i) ==
    {j \in 1..Length(fe_last.value) :
        fe_last.value.data["route_id"][j] = fe_last.value.data["route_id"][i]}

\* the sum of f over the rows of S
RECURSIVE SumOver(_, _)
SumOver(S, f) ==
    IF S = {} THEN Frac(0, 1)
    ELSE LET j == CHOOSE j \in S : TRUE
         IN  FAdd(f[j], SumOver(S \ {j}, f))

\* C26: on every row of a returned table, route_avg_delay is the mean and
\* route_delay_std the (sample) standard deviation of delay_minutes over all
\* rows of the row's route, later rows included, so the rows of one route
\* carry the same two values; a route of a single row has no deviation.
RouteAggregates ==
    (FeaturesReturned /\ HasColumn(fe_last.value, "route_avg_delay"))
       => LET out   == fe_last.value
              delay == out.data["delay_minutes"]
              avg   == out.data["route_avg_delay"]
              var   == out.data["route_delay_std"]
          IN  \A i \in 1..Length(out) :
                 LET n  == Cardinality(SameRoute(i))
                     sq == [j \in 1..Length(out) |->
                               FMul(FSub(delay[j], avg[i]), FSub(delay[j], avg[i]))]
                 IN  /\ FMul(avg[i], Frac(n, 1)) = SumOver(SameRoute(i), delay)
                     /\ IF n < 2 THEN IsNaN(var[i])
                        ELSE FMul(var[i], Frac(n - 1, 1)) = SumOver(SameRoute(i), sq)
                     /\ \A j \in SameRoute(i) : avg[j] = avg[i] /\ var[j] = var[i]

\* the first row in time of a route of two rows with different delays has
\* the aggregates of both, and a row of another route, alone on its route,
\* has its own mean and no deviation
RouteAggregatesWitness ==
    /\ FeaturesReturned
    /\ HasColumn(fe_last.value, "route_avg_delay")
    /\ Length(fe_last.value) = 3
    /\ LET out == fe_last.value
       IN  /\ Cardinality(SameRoute(1)) = 2
           /\ out.data["route_avg_delay"][1] # out.data["delay_minutes"][1]
           /\ ~IsNaN(out.data["route_delay_std"][1])
           /\ \E k \in 2..3 :
                 /\ k \notin SameRoute(1)
                 /\ out.data["route_avg_delay"][k] = out.data["delay_minutes"][k]
                 /\ IsNaN(out.data["route_delay_std"][k])

\* C27: on every row of a returned table with the temporal columns,
\* is_weekend is 1 exactly when day_of_week is 5 or 6, is_morning_peak when
\* hour is 7, 8 or 9, is_evening_peak when hour is 16, 17 or 18, is_peak_hour
\* when one of the two peak flags is 1; the four flags are 0 or 1, hour is
\* in 0..23 and day_of_week in 0..6.
TemporalFlags ==
    (FeaturesReturned /\ HasColumn(fe_last.value, "hour"))
       => LET col == fe_last.value.data
          IN  \A i \in 1..Length(fe_last.value) :
                 /\ col["hour"][i] \in 0..23
                 /\ col["day_of_week"][i] \in 0..6
                 /\ \A f \in {"is_weekend", "is_morning_peak",
                              "is_evening_peak", "is_peak_hour"} :
                       col[f][i] \in {0, 1}
                 /\ col["is_weekend"][i] = 1 <=> col["day_of_week"][i] \in {5, 6}
                 /\ col["is_morning_peak"][i] = 1 <=> col["hour"][i] \in 7..9
                 /\ col["is_evening_peak"][i] = 1 <=> col["hour"][i] \in 16..18
                 /\ col["is_peak_hour"][i] = 1
                       <=> (col["is_morning_peak"][i] = 1 \/ col["is_evening_peak"][i] = 1)

\* one returned table has a weekday row at 9 o'clock in the morning peak, a
\* weekday row outside both peaks and a Saturday row in the evening peak
TemporalFlagsWitness ==
    /\ FeaturesReturned
    /\ HasColumn(fe_last.value, "hour")
    /\ LET col == fe_last.value.data
           n   == Length(fe_last.value)
       IN  /\ \E i \in 1..n : /\ col["hour"][i] = 9
                              /\ col["is_morning_peak"][i] = 1
                              /\ col["is_weekend"][i] = 0
           /\ \E i \in 1..n : /\ col["is_peak_hour"][i] = 0
                              /\ col["hour"][i] = 10
           /\ \E i \in 1..n : /\ col["day_of_week"][i] = 5
                              /\ col["is_weekend"][i] = 1
                              /\ col["is_evening_peak"][i] = 1
                              /\ col["is_morning_peak"][i] = 0
                              /\ col["is_peak_hour"][i] = 1

\* the estimator of p holds the fit of a cross-validation fold of the
\* train() in progress on p
FitOnFold(p) ==
    /\ pc.stage # "idle"
    /\ pc.pid = p
    /\ \E k \in 1..n_splits :
          LET fold == Fold(NRows(pc.X), k)
          IN  /\ Len(fold.train_idx) < NRows(pc.X)
              /\ ~OutOfBounds(pc.y, fold.train_idx)
              /\ model[p] = FoldFit(model[p], pc.X, pc.y, fold)

\* C28: in every state, between the steps of a train() and after a train()
\* that raised included, a predictor with is_trained set has an estimator
\* that is fitted, feature_names equal to the columns of the dataset of
\* that fit, and that fit is not the fit of a cross-validation fold.
TrainingConsistency ==
    \A p \in Pids :
        is_trained[p]
           => /\ model[p].fitted
              /\ feature_names[p] = model[p].feature_names_in_
              /\ ~FitOnFold(p)

\* C29: on a random-forest predictor whose feature_names are the columns
\* its estimator was fitted on, predict_with_confidence(X) for an X that has
\* those columns in another order or among extra columns does not fail and
\* returns the standard deviations it returns for the same rows given in
\* the training column order.
UncertaintyAligned ==
    (/\ last.op = "predict_with_confidence"
     /\ is_trained[last.pid]
     /\ model[last.pid].kind = "random_forest"
     /\ feature_names[last.pid] = model[last.pid].feature_names_in_
     /\ HasColumns(last.X, feature_names[last.pid])
     /\ last.X.columns # feature_names[last.pid])
       => LET aligned == predict_with_confidence(Self(last.pid),
                             SelectColumns(last.X, feature_names[last.pid]))
          IN  /\ IsOk(aligned)
              /\ last.raised = NoError
              /\ last.value.std_devs = aligned.value.std_devs

\* the columns derived from the delay
DelayDependentColumns(self) ==
    {"delay_minutes", "route_avg_delay", "route_delay_std"}
      \cup {LagName(self.lag_hours[k]) : k \in 1..Len(self.lag_hours)}
      \cup UNION {{RollingMeanName(w), RollingStdName(w)} : w \in {3, 6, 12}}

\* C30: create_features on an input that has route_id and no delay source
\* (no delay_seconds, no aimed/expected arrival pair) raises nothing and
\* returns a table without delay_minutes and without the lag, rolling and
\* route-aggregate columns.
NoDelaySource ==
    (/\ fe_last.op = "create_features"
     /\ HasColumn(fe_last.df, "route_id")
     /\ ~HasDelaySource(fe_last.df))
       => /\ fe_last.raised = NoError
          /\ Range(fe_last.value.columns) \cap DelayDependentColumns(engine) = {}
          /\ Length(fe_last.value) = Length(fe_last.df)
====
